---- MODULE Spec2Model ----
(***************************************************************************)
(* crest: a fluent HTTP request builder (client) and a response inspector  *)
(* (responseWrapper / nopResponseWrapper) that share one sticky error.     *)
(*                                                                         *)
(* Spec      : one caller, every method call is one atomic step.           *)
(* SpecConc  : goroutines; a method is split at every acquisition of the   *)
(*             builder's errLock (errGetter / errSetter).                  *)
(***************************************************************************)
EXTENDS Integers, Sequences, FiniteSets, TLC

VARIABLES
    clients,      \* heap of client structs, indexed by pointer (1..Len)
    httpClients,  \* heap of http.Client structs, indexed by pointer
    headerMaps,   \* heap of the header maps of the clients: headerMaps[p] is
                  \* the map made for client p
    origin,       \* history: the builder each builder was cloned from (0: none)
    wrappers,     \* heap of ResponseWrapper values returned by actions
    nerrs,        \* number of error values created so far (error identity)
    budget,       \* configuration changes the caller may still make
    last,         \* what the most recent call did and returned
    pc,           \* SpecConc: position of every goroutine
    loc           \* SpecConc: locals of every goroutine

vars == <<clients, httpClients, headerMaps, origin, wrappers, nerrs, budget, last,
          pc, loc>>

-----------------------------------------------------------------------------
(* Bounds of the model *)

MaxClients == 2      \* client structs (roots and clones)
MaxWrappers == 1     \* variables in which the caller keeps inspectors
MaxHeaderVals == 3   \* values accumulated under one header key
MaxBodyLen == 1      \* characters of a response body
MaxRoots == 1        \* calls of NewClient
MaxConfig == 1       \* configuration changes of a scenario with requests
MaxConfigCfg == 4    \* configuration changes of a scenario without requests

NumGoroutines == 2   \* goroutines of SpecConc

Nil == "nil"         \* a nil pointer (cookie jar)

(* Strings whose content is computed on are sequences of characters. *)
BaseURLs == {<<"h">>}
Paths == {<<"/", "p">>, <<"%">>}
BodyChars == {"1"}
Keys == {"h1", "H1"}
Values == {<<"v">>, <<"v", "w">>}
Timeouts == {0, 5}
Users == {"u"}
Passes == {"p"}
StatusCodes == {200, 500}

RECURSIVE StrsUpTo(_, _)
StrsUpTo(chars, n) ==
    IF n = 0 THEN {<<>>}
    ELSE LET shorter == StrsUpTo(chars, n - 1)
         IN  shorter \cup {Append(s, ch) : s \in shorter, ch \in chars}

Bodies == StrsUpTo(BodyChars, MaxBodyLen)

-----------------------------------------------------------------------------
(* Library functions the code calls *)

\* strings.TrimPrefix(s, "/")
TrimPrefix(s, ch) == IF Len(s) > 0 /\ s[1] = ch THEN Tail(s) ELSE s

\* strings.Contains
Contains(s, needle) ==
    \E i \in 0..(Len(s) - Len(needle)) :
        \A j \in 1..Len(needle) : s[i + j] = needle[j]

\* url.Parse inside http.NewRequest: a '%' not followed by two hex digits is
\* an invalid escape (the alphabet of the model has no hex digit).
URLParseFails(u) == \E i \in 1..Len(u) : u[i] = "%"

\* textproto.CanonicalMIMEHeaderKey on the keys of the model
CanonicalMIMEHeaderKey(k) == IF k = "h1" THEN "H1" ELSE k

\* http.Header is a map from key to the list of its values; the nil map and
\* the empty map differ.  A key without values is absent.
NilHeader == [isNil |-> TRUE, m |-> [k \in Keys |-> <<>>]]

\* make(http.Header)
EmptyHeader == [isNil |-> FALSE, m |-> [k \in Keys |-> <<>>]]

\* (variant: the value replaces what is stored under the key)
HeaderSet(h, key, val) ==
    [h EXCEPT !.m[CanonicalMIMEHeaderKey(key)] = <<val>>]

\* http.Header.Add
HeaderAdd(h, key, val) ==
    [h EXCEPT !.m[CanonicalMIMEHeaderKey(key)] = Append(@, val)]

\* json.Unmarshal of a body into a number: the valid documents over the
\* alphabet of the model are the non-empty digit strings without leading zero.
JSONValid(b) == Len(b) > 0 /\ \A i \in 1..Len(b) : b[i] = "1"

RECURSIVE JSONValue(_)
JSONValue(b) ==
    IF Len(b) = 0 THEN 0
    ELSE 10 * JSONValue(SubSeq(b, 1, Len(b) - 1)) + 1

\* json.Marshal of a request body: a channel value cannot be marshalled.
JSONBodies == {"obj", "chan"}
MarshalFails(v) == v = "chan"

-----------------------------------------------------------------------------
(* Errors.  A failure creates a new error value; errors.Wrap adds layers. *)

NilError == [id |-> 0, cause |-> "", wraps |-> <<>>]
NewError(cause) == [id |-> nerrs + 1, cause |-> cause, wraps |-> <<>>]
WrapLayer(e, layer) == [e EXCEPT !.wraps = Append(@, layer)]
Wrap(e, msg) == WrapLayer(e, [text |-> msg, method |-> "", url |-> <<>>])

-----------------------------------------------------------------------------
(* The client struct and its error cell *)

\* cl.errGetter / cl.errSetter are closures over the pointer cl of the
\* NewCustomClient call that made them; a struct copy copies the closures.
errGetter(cs, c) == cs[cs[c].errCell].err

\* (variant: the setter writes the err field of the receiver)
errSetterOwnField(cs, c, e) == [cs EXCEPT ![c].err = e]

errSetter(cs, c, e) == [cs EXCEPT ![cs[c].errCell].err = e]

\* client.Error
Error(c) == errGetter(clients, c)

\* the struct NewCustomClient builds for pointer p
NewCustomClientStruct(p, url, hc) ==
    [baseURL |-> url, httpClient |-> hc, err |-> NilError, errCell |-> p,
     useBasicAuth |-> FALSE, basicAuthUser |-> "", basicAuthPass |-> "",
     useCookies |-> FALSE, headers |-> 0, timeout |-> 0]

\* c.headers: the nil map, or the map the field points to
HeadersOf(cs, hm, c) ==
    IF cs[c].headers = 0 THEN NilHeader
    ELSE [isNil |-> FALSE, m |-> hm[cs[c].headers]]

\* a nil *http.Request, and the fields of a request the model keeps
NilReq == [isNil |-> TRUE, Method |-> "", URL |-> <<>>, Header |-> NilHeader,
           basicAuth |-> <<>>, timeout |-> 0, contentType |-> ""]

\* the record of one call: op, receiver, returned object, whether the error
\* accessor reported an error on entry, and what the call did: calls of the
\* error setter, of the transport, requests built, calls of a function of
\* the caller, a panic, the destination of ParseBody after the call, and
\* the string Body returned.
Call(op, self, ret, pending, sets, transport, built, pred, panic) ==
    [op |-> op, self |-> self, ret |-> ret, pending |-> pending,
     sets |-> sets, transport |-> transport, built |-> built,
     pred |-> pred, panic |-> panic, dest |-> 0, str |-> <<>>]

ConfigCall(op, c, pending, sets) ==
    Call(op, c, <<"client", c>>, pending, sets, 0, 0, 0, FALSE)

\* a nil *http.Response, and the fields of a response the model keeps:
\* Body is the content of the stream, readErr whether reading it fails,
\* drained / closed what has been done to the stream.
NilResp == [isNil |-> TRUE, StatusCode |-> 0, Header |-> NilHeader,
            Body |-> <<>>, readErr |-> FALSE, drained |-> FALSE, closed |-> FALSE]

Response(s, h, b, r) ==
    [isNil |-> FALSE, StatusCode |-> s, Header |-> h, Body |-> b,
     readErr |-> r, drained |-> FALSE, closed |-> FALSE]

\* the nopResponseWrapper an action returns when it does not attempt a request
NopResponseWrapper ==
    [kind |-> "nop", client |-> 0, resp |-> NilResp, body |-> <<>>,
     wrapf |-> FALSE, Method |-> "", URL |-> <<>>]

Goroutines == 1..NumGoroutines

\* the locals of a goroutine: the call it is in (op, c, method, path), the
\* error it is about to hand to the setter (e), req and resp of do, whether
\* the inspector under construction has the annotating setter (wrapf), and
\* r, the inspector the goroutine holds
NoLocals == [op |-> "", c |-> 0, method |-> "", path |-> <<>>, e |-> NilError,
             req |-> NilReq, resp |-> NilResp, wrapf |-> FALSE,
             r |-> NopResponseWrapper]

Init ==
    /\ clients = <<>>
    /\ httpClients = <<>>
    /\ headerMaps = <<>>
    /\ origin = <<>>
    /\ wrappers = <<>>
    /\ nerrs = 0
    /\ budget = MaxConfig
    /\ last = Call("", 0, <<"", 0>>, FALSE, 0, 0, 0, 0, FALSE)
    /\ pc = [g \in Goroutines |-> "idle"]
    /\ loc = [g \in Goroutines |-> NoLocals]

ClientPtrs == 1..Len(clients)
WrapperPtrs == 1..Len(wrappers)
Roots == {c \in ClientPtrs : clients[c].errCell = c}

-----------------------------------------------------------------------------
(* Construction and configuration *)

\* a configuration change uses up one unit of the caller's budget
Spend == budget > 0 /\ budget' = budget - 1

\* NewClient(url): NewCustomClient(url, &http.Client{})
NewClient(url) ==
    /\ Len(clients) < MaxClients
    /\ Cardinality(Roots) < MaxRoots
    /\ LET p == Len(clients) + 1
           hc == Len(httpClients) + 1
       IN  /\ clients' = Append(clients, NewCustomClientStruct(p, url, hc))
           /\ httpClients' = Append(httpClients, [Jar |-> Nil])
           /\ headerMaps' = Append(headerMaps, EmptyHeader.m)
           /\ origin' = Append(origin, 0)
           /\ last' = Call("NewClient", 0, <<"client", p>>, FALSE, 0, 0, 0, 0, FALSE)
    /\ UNCHANGED <<wrappers, nerrs, budget, pc, loc>>

\* (variant: NoBasicAuth resets the timeout as well)
NoBasicAuthResetsTimeout(c) ==
    /\ IF errGetter(clients, c) # NilError
       THEN UNCHANGED <<clients, budget>>
       ELSE /\ Spend
            /\ clients' = [clients EXCEPT ![c].useBasicAuth = FALSE,
                                          ![c].basicAuthUser = "",
                                          ![c].basicAuthPass = "",
                                          ![c].timeout = 0]
    /\ last' = ConfigCall("NoBasicAuth", c, errGetter(clients, c) # NilError, 0)
    /\ UNCHANGED <<httpClients, headerMaps, origin, wrappers, nerrs, pc, loc>>

NoBasicAuth(c) ==
    /\ IF errGetter(clients, c) # NilError
       THEN UNCHANGED <<clients, budget>>
       ELSE /\ Spend
            /\ clients' = [clients EXCEPT ![c].useBasicAuth = FALSE,
                                          ![c].basicAuthUser = "",
                                          ![c].basicAuthPass = ""]
    /\ last' = ConfigCall("NoBasicAuth", c, errGetter(clients, c) # NilError, 0)
    /\ UNCHANGED <<httpClients, headerMaps, origin, wrappers, nerrs, pc, loc>>

UseBasicAuth(c, user, pass) ==
    /\ IF errGetter(clients, c) # NilError
       THEN UNCHANGED <<clients, budget>>
       ELSE /\ Spend
            /\ clients' = [clients EXCEPT ![c].useBasicAuth = TRUE,
                                          ![c].basicAuthUser = user,
                                          ![c].basicAuthPass = pass]
    /\ last' = ConfigCall("UseBasicAuth", c, errGetter(clients, c) # NilError, 0)
    /\ UNCHANGED <<httpClients, headerMaps, origin, wrappers, nerrs, pc, loc>>

\* cookiejar.New returns (jar, err); jarOK is whether err is nil.
UseCookies(c, use, jarOK) ==
    /\ IF errGetter(clients, c) # NilError
       THEN /\ UNCHANGED <<clients, httpClients, nerrs, budget>>
            /\ last' = ConfigCall("UseCookies", c, TRUE, 0)
       ELSE IF ~use
       THEN /\ Spend
            /\ httpClients' = [httpClients EXCEPT ![clients[c].httpClient].Jar = Nil]
            /\ UNCHANGED <<clients, nerrs>>
            /\ last' = ConfigCall("UseCookies", c, FALSE, 0)
       ELSE IF ~jarOK
       THEN /\ clients' = errSetter(clients, c,
                              Wrap(NewError("cookiejar.New"), "creating cookie jar"))
            /\ nerrs' = nerrs + 1
            /\ UNCHANGED <<httpClients, budget>>
            /\ last' = ConfigCall("UseCookies", c, FALSE, 1)
       ELSE /\ Spend
            /\ httpClients' = [httpClients EXCEPT ![clients[c].httpClient].Jar = "jar"]
            /\ UNCHANGED <<clients, nerrs>>
            /\ last' = ConfigCall("UseCookies", c, FALSE, 0)
    /\ UNCHANGED <<headerMaps, origin, wrappers, pc, loc>>

\* if c.headers == nil { c.headers = make(http.Header) }; c.headers.Add(key, value)
WithHeader(c, key, value) ==
    /\ IF errGetter(clients, c) # NilError
       THEN UNCHANGED <<clients, headerMaps, budget>>
       ELSE LET made == clients[c].headers = 0
                ptr == IF made THEN c ELSE clients[c].headers
                h == IF made THEN EmptyHeader
                     ELSE HeadersOf(clients, headerMaps, c)
            IN  /\ Spend
                /\ Len(h.m[CanonicalMIMEHeaderKey(key)]) < MaxHeaderVals
                /\ clients' = [clients EXCEPT ![c].headers = ptr]
                /\ headerMaps' = [headerMaps EXCEPT ![ptr] = HeaderAdd(h, key, value).m]
    /\ last' = ConfigCall("WithHeader", c, errGetter(clients, c) # NilError, 0)
    /\ UNCHANGED <<httpClients, origin, wrappers, nerrs, pc, loc>>

\* (variant: WithTimeout without the check of the error)
WithTimeoutUnchecked(c, timeout) ==
    /\ Spend
    /\ clients' = [clients EXCEPT ![c].timeout = timeout]
    /\ last' = ConfigCall("WithTimeout", c, errGetter(clients, c) # NilError, 0)
    /\ UNCHANGED <<httpClients, headerMaps, origin, wrappers, nerrs, pc, loc>>

WithTimeout(c, timeout) ==
    /\ IF errGetter(clients, c) # NilError
       THEN UNCHANGED <<clients, budget>>
       ELSE /\ Spend
            /\ clients' = [clients EXCEPT ![c].timeout = timeout]
    /\ last' = ConfigCall("WithTimeout", c, errGetter(clients, c) # NilError, 0)
    /\ UNCHANGED <<httpClients, headerMaps, origin, wrappers, nerrs, pc, loc>>

\* the header copy loop of Clone: every value of every key, in order
RECURSIVE AddAll(_, _, _)
AddAll(h, key, vals) ==
    IF vals = <<>> THEN h
    ELSE AddAll(HeaderAdd(h, key, Head(vals)), key, Tail(vals))

RECURSIVE CopyHeaders(_, _, _)
CopyHeaders(into, from, keys) ==
    IF keys = {} THEN into
    ELSE LET k == CHOOSE x \in keys : TRUE
         IN  CopyHeaders(AddAll(into, k, from.m[k]), from, keys \ {k})

\* (variant: the clone keeps the header map of the original)
ClonedStructShallow(c) == clients[c]

\* (variant: the clone gets an error cell of its own)
ClonedStructOwnCell(c) ==
    [clients[c] EXCEPT !.headers = Len(clients) + 1, !.errCell = Len(clients) + 1]

\* cloned := *c; cloned.headers = make(http.Header): the struct of the clone,
\* whose headers field points to the map made for it
ClonedStruct(c) == [clients[c] EXCEPT !.headers = Len(clients) + 1]

\* the content of that map after the copy loop
ClonedHeaders(c) ==
    CopyHeaders(EmptyHeader, HeadersOf(clients, headerMaps, c), Keys).m

Clone(c) ==
    /\ IF errGetter(clients, c) # NilError
       THEN /\ UNCHANGED <<clients, headerMaps, origin>>
            /\ last' = ConfigCall("Clone", c, TRUE, 0)
       ELSE /\ Len(clients) < MaxClients
            /\ clients' = Append(clients, ClonedStruct(c))
            /\ headerMaps' = Append(headerMaps, ClonedHeaders(c))
            /\ origin' = Append(origin, c)
            /\ last' = Call("Clone", c, <<"client", Len(clients) + 1>>, FALSE,
                            0, 0, 0, 0, FALSE)
    /\ UNCHANGED <<httpClients, wrappers, nerrs, budget, pc, loc>>

-----------------------------------------------------------------------------
(* Requests, the transport and the construction of an inspector *)

\* the methods the calls of the model use
Methods == {"GET", "POST"}
BodyMethods == {"POST"}

\* the header collection of a response: two values under one key
ResponseHeader ==
    HeaderAdd(HeaderAdd(EmptyHeader, "H1", <<"v", "w">>), "H1", <<"v">>)

\* the responses the transport of the model gives: a 200 with headers and
\* a JSON body, a 500 without header collection and with an empty body, and
\* one whose body stream fails when read
Responses ==
    {Response(200, ResponseHeader, <<"1">>, FALSE),
     Response(500, NilHeader, <<>>, FALSE),
     Response(200, EmptyHeader, <<"1">>, TRUE)}

\* what http.Client.Do returns: (nil, err) or (resp, nil)
TransportOutcomes == {NilResp} \cup Responses

\* (*http.Client).Do returns every failure as a *url.Error{Op, URL, Err}:
\* Op is the method of the request with only its first letter in upper case
urlErrorOp(method) ==
    IF method = "GET" THEN "Get" ELSE IF method = "POST" THEN "Post" ELSE method

\* (variant: the transport returns its failure bare)
URLErrorBare(e, req) == e

URLError(e, req) ==
    WrapLayer(e, [text |-> "url.Error", method |-> urlErrorOp(req.Method),
                  url |-> req.URL])

buildPath(c, path) == clients[c].baseURL \o <<"/">> \o TrimPrefix(path, "/")

\* http.NewRequest for a URL that parses
NewRequest(method, url) ==
    [isNil |-> FALSE, Method |-> method, URL |-> url, Header |-> EmptyHeader,
     basicAuth |-> <<>>, timeout |-> 0, contentType |-> ""]

populateReq(c, req) ==
    [req EXCEPT
        !.basicAuth = IF clients[c].useBasicAuth
                      THEN <<clients[c].basicAuthUser, clients[c].basicAuthPass>>
                      ELSE <<>>,
        !.Header = CopyHeaders(@, HeadersOf(clients, headerMaps, c), Keys),
        !.timeout = IF clients[c].timeout > 0 THEN clients[c].timeout ELSE 0]

\* buildReq: the request, or nil when http.NewRequest fails
buildReq(c, method, path) ==
    IF URLParseFails(buildPath(c, path)) THEN NilReq
    ELSE populateReq(c, NewRequest(method, buildPath(c, path)))

\* a responseWrapper: error / setError are bound to client c; wrapf tells
\* the setter that annotates with the request from the plain c.errSetter.
ResponseWrapper(c, resp, body, wrapf, req) ==
    [kind |-> "real", client |-> c, resp |-> resp, body |-> body,
     wrapf |-> wrapf, Method |-> req.Method, URL |-> req.URL]

\* r.setError(e) of wrapper r: the error that reaches the error cell
SetErrorArg(r, e) ==
    IF r.wrapf
    THEN WrapLayer(e, [text |-> "doing a request to URL", method |-> r.Method,
                       url |-> r.URL])
    ELSE e

\* (variant: the body is read whether or not an error is pending)
newResponseWrapperAlwaysReads(c, resp, cur, wrapf, req) ==
    IF resp.isNil
    THEN [r |-> ResponseWrapper(c, resp, <<>>, wrapf, req),
          set |-> NilError, panic |-> TRUE]
    ELSE IF resp.readErr
    THEN [r |-> ResponseWrapper(c, resp, <<>>, wrapf, req),
          set |-> SetErrorArg(ResponseWrapper(c, resp, <<>>, wrapf, req),
                              Wrap(NewError("read error"), "reading response body")),
          panic |-> FALSE]
    ELSE [r |-> ResponseWrapper(c, [resp EXCEPT !.drained = TRUE], resp.Body, wrapf, req),
          set |-> NilError, panic |-> FALSE]

\* (variant: what was read before the failure is kept as the body)
newResponseWrapperKeepsPartial(c, resp, cur, wrapf, req) ==
    IF cur # NilError
    THEN [r |-> ResponseWrapper(c, resp, <<>>, wrapf, req),
          set |-> NilError, panic |-> FALSE]
    ELSE IF resp.isNil
    THEN [r |-> ResponseWrapper(c, resp, <<>>, wrapf, req),
          set |-> NilError, panic |-> TRUE]
    ELSE IF resp.readErr
    THEN [r |-> ResponseWrapper(c, resp, resp.Body, wrapf, req),
          set |-> SetErrorArg(ResponseWrapper(c, resp, <<>>, wrapf, req),
                              Wrap(NewError("read error"), "reading response body")),
          panic |-> FALSE]
    ELSE [r |-> ResponseWrapper(c, [resp EXCEPT !.drained = TRUE], resp.Body, wrapf, req),
          set |-> NilError, panic |-> FALSE]

\* newResponseWrapper(resp, errChecker, errSetter) when errChecker() returns
\* cur: the inspector, the error given to the setter (NilError: setter not
\* called) and whether r.resp.Body dereferences a nil response.
newResponseWrapper(c, resp, cur, wrapf, req) ==
    IF cur # NilError
    THEN [r |-> ResponseWrapper(c, resp, <<>>, wrapf, req),
          set |-> NilError, panic |-> FALSE]
    ELSE IF resp.isNil
    THEN [r |-> ResponseWrapper(c, resp, <<>>, wrapf, req),
          set |-> NilError, panic |-> TRUE]
    ELSE IF resp.readErr
    THEN [r |-> ResponseWrapper(c, [resp EXCEPT !.drained = FALSE], <<>>, wrapf, req),
          set |-> SetErrorArg(ResponseWrapper(c, resp, <<>>, wrapf, req),
                              Wrap(NewError("read error"), "reading response body")),
          panic |-> FALSE]
    ELSE [r |-> ResponseWrapper(c, [resp EXCEPT !.drained = TRUE], resp.Body, wrapf, req),
          set |-> NilError, panic |-> FALSE]

\* The outcome of one action method on client c once its doReq* variant has
\* found no pending error.
\*   kind     which doReq* variant runs
\*   jsonBody the body given to json.Marshal (doReqJSON only)
\*   out      what the transport returns if it is called
AttemptOutcome(c, kind, method, path, jsonBody, out) ==
    LET req == buildReq(c, method, path)
        formReq == [req EXCEPT !.contentType = "application/x-www-form-urlencoded"]
        sent == IF kind = "doReqForm" THEN formReq ELSE req
        nop == [ret |-> "nop", r |-> NopResponseWrapper]
    IN
    IF kind = "doReqJSON" /\ MarshalFails(jsonBody)
    THEN nop @@ [cs |-> errSetter(clients, c,
                          Wrap(NewError("json.Marshal"), "marshalling JSON body")),
                 made |-> 1, pending |-> FALSE, sets |-> 1,
                 transport |-> 0, built |-> 0, panic |-> FALSE, req |-> NilReq]
    ELSE IF req.isNil
    THEN LET cs1 == errSetter(clients, c,
                        Wrap(NewError("http.NewRequest"), "creating request"))
         IN  IF kind = "doReqForm"
             \* req.Header.Add on the nil request
             THEN [ret |-> "panic", r |-> NopResponseWrapper, cs |-> cs1,
                   made |-> 1, pending |-> FALSE, sets |-> 1, transport |-> 0,
                   built |-> 0, panic |-> TRUE, req |-> NilReq]
             \* do(nil): the error is set, newResponseWrapper(nil, c.Error, c.errSetter)
             ELSE [ret |-> "real",
                   r |-> newResponseWrapper(c, NilResp, errGetter(cs1, c), FALSE, NilReq).r,
                   cs |-> cs1, made |-> 1, pending |-> FALSE, sets |-> 1,
                   transport |-> 0, built |-> 0, panic |-> FALSE, req |-> NilReq]
    ELSE IF out.isNil
    \* the transport fails: errSetter, then newResponseWrapper(nil, ...)
    THEN LET cs1 == errSetter(clients, c,
                        Wrap(URLError(NewError("transport"), sent), "doing request"))
             n == newResponseWrapper(c, NilResp, errGetter(cs1, c), TRUE, sent)
         IN  [ret |-> IF n.panic THEN "panic" ELSE "real", r |-> n.r, cs |-> cs1,
              made |-> 1, pending |-> FALSE, sets |-> 1, transport |-> 1,
              built |-> 1, panic |-> n.panic, req |-> sent]
    ELSE LET n == newResponseWrapper(c, out, errGetter(clients, c), TRUE, sent)
         IN  [ret |-> IF n.panic THEN "panic" ELSE "real", r |-> n.r,
              cs |-> IF n.set # NilError THEN errSetter(clients, c, n.set)
                     ELSE clients,
              made |-> IF n.set # NilError THEN 1 ELSE 0,
              pending |-> FALSE,
              sets |-> IF n.set # NilError THEN 1 ELSE 0,
              transport |-> 1, built |-> 1, panic |-> n.panic, req |-> sent]

\* (variant: the action does not check the error first)
ActionOutcomeUnchecked(c, kind, method, path, jsonBody, out) ==
    AttemptOutcome(c, kind, method, path, jsonBody, out)

\* (variant: a failed transport call is tried once more)
ActionOutcomeRetry(c, kind, method, path, jsonBody, out) ==
    IF errGetter(clients, c) # NilError
    THEN [ret |-> "nop", r |-> NopResponseWrapper, cs |-> clients, made |-> 0,
          pending |-> TRUE, sets |-> 0, transport |-> 0, built |-> 0,
          panic |-> FALSE, req |-> NilReq]
    ELSE LET o == AttemptOutcome(c, kind, method, path, jsonBody, out)
         IN  [o EXCEPT !.transport = IF o.transport = 1 /\ out.isNil THEN 2 ELSE @]

\* if c.errGetter() != nil { return &nopResponseWrapper{} }, else the attempt
ActionOutcome(c, kind, method, path, jsonBody, out) ==
    IF errGetter(clients, c) # NilError
    THEN [ret |-> "nop", r |-> NopResponseWrapper, cs |-> clients, made |-> 0,
          pending |-> TRUE, sets |-> 0, transport |-> 0, built |-> 0,
          panic |-> FALSE, req |-> NilReq]
    ELSE AttemptOutcome(c, kind, method, path, jsonBody, out)

\* The caller assigns the returned inspector to one of its variables.
ApplyAction(c, op, o) ==
    /\ clients' = o.cs
    /\ nerrs' = nerrs + o.made
    /\ \E slot \in 1..MaxWrappers :
        /\ slot <= Len(wrappers) + 1
        /\ wrappers' = IF o.ret = "panic" THEN wrappers
                       ELSE IF slot = Len(wrappers) + 1 THEN Append(wrappers, o.r)
                       ELSE [wrappers EXCEPT ![slot] = o.r]
        /\ last' = Call(op, c, <<o.ret, IF o.ret = "panic" THEN 0 ELSE slot>>,
                        o.pending, o.sets, o.transport, o.built, 0, o.panic)
    /\ UNCHANGED <<httpClients, headerMaps, origin, budget, pc, loc>>

\* what c.httpClient.Do may return in a call that reaches it
TransportChoices(c, path, jsonBody) ==
    IF \/ errGetter(clients, c) # NilError
       \/ MarshalFails(jsonBody)
       \/ URLParseFails(buildPath(c, path))
    THEN {NilResp}
    ELSE TransportOutcomes

\* Delete, Get, PatchNoBody, PostNoBody, PutNoBody
doReqNoBody(c, method, path) ==
    \E out \in TransportChoices(c, path, "obj") :
        ApplyAction(c, "doReqNoBody",
                    ActionOutcome(c, "doReqNoBody", method, path, "obj", out))

\* Patch, Post, Put
doReqJSON(c, method, path, body) ==
    \E out \in TransportChoices(c, path, body) :
        ApplyAction(c, "doReqJSON",
                    ActionOutcome(c, "doReqJSON", method, path, body, out))

\* PatchString, PostString, PutString
doReqString(c, method, path) ==
    \E out \in TransportChoices(c, path, "obj") :
        ApplyAction(c, "doReqString",
                    ActionOutcome(c, "doReqString", method, path, "obj", out))

\* PatchBytes, PostBytes, PutBytes
doReqBytes(c, method, path) ==
    \E out \in TransportChoices(c, path, "obj") :
        ApplyAction(c, "doReqBytes",
                    ActionOutcome(c, "doReqBytes", method, path, "obj", out))

\* PostForm
doReqForm(c, method, path) ==
    \E out \in TransportChoices(c, path, "obj") :
        ApplyAction(c, "doReqForm",
                    ActionOutcome(c, "doReqForm", method, path, "obj", out))

-----------------------------------------------------------------------------
(* The assertion methods of responseWrapper *)

WrapperCall(op, w, pending, sets, pred, panic, written) ==
    [Call(op, w, <<IF panic THEN "panic" ELSE "real", w>>, pending, sets,
          0, 0, pred, panic) EXCEPT !.dest = written]

\* (variant: an assertion method without the check of the error)
ExpectUnchecked(w, op, derefs, pred, failed, cause, written) ==
    LET r == wrappers[w]
        cur == errGetter(clients, r.client)
    IN  /\ r.kind = "real"
        /\ IF derefs /\ r.resp.isNil
           THEN /\ UNCHANGED <<clients, nerrs>>
                /\ last' = WrapperCall(op, w, cur # NilError, 0, 0, TRUE, 0)
           ELSE IF failed
           THEN /\ clients' = errSetter(clients, r.client,
                                        SetErrorArg(r, NewError(cause)))
                /\ nerrs' = nerrs + 1
                /\ last' = WrapperCall(op, w, cur # NilError, 1,
                                       IF pred THEN 1 ELSE 0, FALSE, 0)
           ELSE /\ UNCHANGED <<clients, nerrs>>
                /\ last' = WrapperCall(op, w, cur # NilError, 0,
                                       IF pred THEN 1 ELSE 0, FALSE, written)
        /\ UNCHANGED <<httpClients, headerMaps, origin, wrappers, budget, pc, loc>>

\* The shape every assertion method has:
\*   if r.error() != nil { return r }
\*   [dereference r.resp]  if <failed> { r.setError(<cause>) }  return r
\* derefs: the method reads a field of r.resp; pred: it calls a function of
\* the caller; failed: the condition that records the error; written: what
\* a method that does not fail stores in the destination it was given.
Expect(w, op, derefs, pred, failed, cause, written) ==
    LET r == wrappers[w]
        cur == errGetter(clients, r.client)
    IN  /\ r.kind = "real"
        /\ IF cur # NilError
           THEN /\ UNCHANGED <<clients, nerrs>>
                /\ last' = WrapperCall(op, w, TRUE, 0, 0, FALSE, 0)
           ELSE IF derefs /\ r.resp.isNil
           THEN /\ UNCHANGED <<clients, nerrs>>
                /\ last' = WrapperCall(op, w, FALSE, 0, 0, TRUE, 0)
           ELSE IF failed
           THEN /\ clients' = errSetter(clients, r.client,
                                        SetErrorArg(r, NewError(cause)))
                /\ nerrs' = nerrs + 1
                /\ last' = WrapperCall(op, w, FALSE, 1, IF pred THEN 1 ELSE 0, FALSE, 0)
           ELSE /\ UNCHANGED <<clients, nerrs>>
                /\ last' = WrapperCall(op, w, FALSE, 0, IF pred THEN 1 ELSE 0, FALSE, written)
        /\ UNCHANGED <<httpClients, headerMaps, origin, wrappers, budget, pc, loc>>

\* (variant: Body reads the stream of the response again)
BodyRereads(w) ==
    /\ wrappers[w].kind = "real"
    /\ last' = [Call("Body", w, <<"string", 0>>, FALSE, 0, 0, 0, 0, FALSE)
                    EXCEPT !.str = IF wrappers[w].resp.drained THEN <<>>
                                   ELSE wrappers[w].resp.Body]
    /\ UNCHANGED <<clients, httpClients, headerMaps, origin, wrappers, nerrs,
                   budget, pc, loc>>

\* responseWrapper.Body: return r.body
Body(w) ==
    /\ wrappers[w].kind = "real"
    /\ last' = [Call("Body", w, <<"string", 0>>, FALSE, 0, 0, 0, 0, FALSE)
                    EXCEPT !.str = wrappers[w].body]
    /\ UNCHANGED <<clients, httpClients, headerMaps, origin, wrappers, nerrs,
                   budget, pc, loc>>

\* the loops over r.resp.Header[key]
HeaderHasContaining(r, key, needle) ==
    \E i \in 1..Len(r.resp.Header.m[key]) : Contains(r.resp.Header.m[key][i], needle)

\* (variant: only the first value under the key is compared)
HeaderHasEqualFirst(r, key, needle) ==
    /\ Len(r.resp.Header.m[key]) > 0
    /\ r.resp.Header.m[key][1] = needle

HeaderHasEqual(r, key, needle) ==
    \E i \in 1..Len(r.resp.Header.m[key]) : r.resp.Header.m[key][i] = needle

ExpectBodyContains(w, needle) ==
    Expect(w, "ExpectBodyContains", FALSE, FALSE,
              ~Contains(wrappers[w].body, needle), "expected body to contain", 0)

ExpectBodyEquals(w, value) ==
    Expect(w, "ExpectBodyEquals", FALSE, FALSE,
              wrappers[w].body # value, "expected body to be", 0)

ExpectBodyNotContains(w, needle) ==
    Expect(w, "ExpectBodyNotContains", FALSE, FALSE,
              Contains(wrappers[w].body, needle), "expected body to not contain", 0)

\* (variant: the empty string is not accepted as a non-matching value)
ExpectBodyNotEqualsRejectsEmpty(w, value) ==
    Expect(w, "ExpectBodyNotEquals", FALSE, FALSE,
              wrappers[w].body = value \/ value = <<>>, "expected body to not be", 0)

ExpectBodyNotEquals(w, value) ==
    Expect(w, "ExpectBodyNotEquals", FALSE, FALSE,
              wrappers[w].body = value, "expected body not to be", 0)

\* passes: what the caller's function returns for r.body
ExpectBodyPasses(w, passes) ==
    Expect(w, "ExpectBodyPasses", FALSE, TRUE,
              ~passes, "expected function to pass", 0)

ExpectHeaderContains(w, key, needle) ==
    Expect(w, "ExpectHeaderContains", TRUE, FALSE,
              \/ wrappers[w].resp.Header.isNil
              \/ ~HeaderHasContaining(wrappers[w], key, needle),
              IF wrappers[w].resp.Header.isNil THEN "there are no headers"
              ELSE "expected a header containing", 0)

ExpectHeaderEquals(w, key, needle) ==
    Expect(w, "ExpectHeaderEquals", TRUE, FALSE,
              \/ wrappers[w].resp.Header.isNil
              \/ ~HeaderHasEqual(wrappers[w], key, needle),
              IF wrappers[w].resp.Header.isNil THEN "there are no headers"
              ELSE "expected a header containing", 0)

\* (variant: the negative check fails too when there are no headers)
ExpectHeaderNotContainsStrict(w, key, needle) ==
    Expect(w, "ExpectHeaderNotContains", TRUE, FALSE,
              \/ wrappers[w].resp.Header.isNil
              \/ HeaderHasContaining(wrappers[w], key, needle),
              IF wrappers[w].resp.Header.isNil THEN "there are no headers"
              ELSE "expected a header to not contain", 0)

ExpectHeaderNotContains(w, key, needle) ==
    Expect(w, "ExpectHeaderNotContains", TRUE, FALSE,
              /\ ~wrappers[w].resp.Header.isNil
              /\ HeaderHasContaining(wrappers[w], key, needle),
              "expected a header to not contain", 0)

ExpectHeaderNotEquals(w, key, needle) ==
    Expect(w, "ExpectHeaderNotEquals", TRUE, FALSE,
              HeaderHasEqual(wrappers[w], key, needle),
              "expected a header to not be", 0)

ExpectHeaderNotPresent(w, key) ==
    Expect(w, "ExpectHeaderNotPresent", TRUE, FALSE,
              Len(wrappers[w].resp.Header.m[key]) > 0,
              "expected a header not to be present", 0)

\* (variant: without the check for a missing header collection)
ExpectHeaderPresentLenient(w, key) ==
    Expect(w, "ExpectHeaderPresent", TRUE, FALSE,
              ~wrappers[w].resp.Header.isNil
                  /\ Len(wrappers[w].resp.Header.m[key]) = 0,
              "expected a header to be present", 0)

ExpectHeaderPresent(w, key) ==
    Expect(w, "ExpectHeaderPresent", TRUE, FALSE,
              \/ wrappers[w].resp.Header.isNil
              \/ Len(wrappers[w].resp.Header.m[key]) = 0,
              IF wrappers[w].resp.Header.isNil THEN "there are no headers"
              ELSE "expected a header to be present", 0)

\* (variant: ExpectPasses without the check of the error)
ExpectPassesUnchecked(w, passes) ==
    ExpectUnchecked(w, "ExpectPasses", FALSE, TRUE,
                    ~passes, "expected function to pass", 0)

\* passes: what the caller's function returns for (r.resp, r.body)
ExpectPasses(w, passes) ==
    Expect(w, "ExpectPasses", FALSE, TRUE,
              ~passes, "expected function to pass", 0)

\* (variant: the message names the expected status only)
ExpectStatusOmitsActual(w, code) ==
    Expect(w, "ExpectStatus", TRUE, FALSE,
              wrappers[w].resp.StatusCode # code,
              "expected status code " \o ToString(code), 0)

\* fmt.Errorf("expected status code %d but got %d", code, r.resp.StatusCode)
ExpectStatus(w, code) ==
    Expect(w, "ExpectStatus", TRUE, FALSE,
              wrappers[w].resp.StatusCode # code,
              "expected status code " \o ToString(code) \o " but got "
                  \o ToString(wrappers[w].resp.StatusCode), 0)

\* ParseBody(&v) for a zero-valued v; json.Unmarshal checks the document
\* before it writes to the destination.  last.dest is v after the call.
ParseBody(w) ==
    Expect(w, "ParseBody", FALSE, FALSE,
           ~JSONValid(wrappers[w].body), "unmarshalling body",
           JSONValue(wrappers[w].body))

ConfigOps == {"NoBasicAuth", "UseBasicAuth", "UseCookies", "WithHeader", "WithTimeout"}
ActionOps == {"doReqNoBody", "doReqJSON", "doReqString", "doReqBytes", "doReqForm"}

AssertionOps ==
    {"ExpectBodyContains", "ExpectBodyEquals", "ExpectBodyNotContains",
     "ExpectBodyNotEquals", "ExpectBodyPasses", "ExpectHeaderContains",
     "ExpectHeaderEquals", "ExpectHeaderNotContains", "ExpectHeaderNotEquals",
     "ExpectHeaderNotPresent", "ExpectHeaderPresent", "ExpectPasses",
     "ExpectStatus", "ParseBody"}

\* (variant: the null inspector calls the function it is given)
NopMethodCallsPredicate(w, op) ==
    /\ wrappers[w].kind = "nop"
    /\ last' = Call(op, w, <<"nop", w>>, FALSE, 0, 0, 0,
                    IF op \in {"ExpectPasses", "ExpectBodyPasses"} THEN 1 ELSE 0, FALSE)
    /\ UNCHANGED <<clients, httpClients, headerMaps, origin, wrappers, nerrs,
                   budget, pc, loc>>

\* every method of nopResponseWrapper returns the receiver
NopMethod(w, op) ==
    /\ wrappers[w].kind = "nop"
    /\ last' = Call(op, w, <<"nop", w>>, FALSE, 0, 0, 0, 0, FALSE)
    /\ UNCHANGED <<clients, httpClients, headerMaps, origin, wrappers, nerrs,
                   budget, pc, loc>>

\* nopResponseWrapper.Body: return ""
NopBody(w) ==
    /\ wrappers[w].kind = "nop"
    /\ last' = Call("Body", w, <<"string", 0>>, FALSE, 0, 0, 0, 0, FALSE)
    /\ UNCHANGED <<clients, httpClients, headerMaps, origin, wrappers, nerrs,
                   budget, pc, loc>>

-----------------------------------------------------------------------------
(* One caller: every call is one step *)

Next ==
    \/ \E url \in BaseURLs : NewClient(url)
    \/ \E c \in ClientPtrs : NoBasicAuth(c)
    \/ \E c \in ClientPtrs, u \in Users, p \in Passes : UseBasicAuth(c, u, p)
    \/ \E c \in ClientPtrs, use \in BOOLEAN, jarOK \in BOOLEAN : UseCookies(c, use, jarOK)
    \/ \E c \in ClientPtrs, k \in Keys, v \in Values : WithHeader(c, k, v)
    \/ \E c \in ClientPtrs, t \in Timeouts : WithTimeout(c, t)
    \/ \E c \in ClientPtrs : Clone(c)
    \/ \E c \in ClientPtrs, m \in Methods, p \in Paths : doReqNoBody(c, m, p)
    \/ \E c \in ClientPtrs, m \in BodyMethods, p \in Paths, b \in JSONBodies :
          doReqJSON(c, m, p, b)
    \/ \E c \in ClientPtrs, m \in BodyMethods, p \in Paths : doReqString(c, m, p)
    \/ \E c \in ClientPtrs, m \in BodyMethods, p \in Paths : doReqBytes(c, m, p)
    \/ \E c \in ClientPtrs, p \in Paths : doReqForm(c, "POST", p)
    \/ \E w \in WrapperPtrs, n \in Bodies : ExpectBodyContains(w, n)
    \/ \E w \in WrapperPtrs, v \in Bodies : ExpectBodyEquals(w, v)
    \/ \E w \in WrapperPtrs, n \in Bodies : ExpectBodyNotContains(w, n)
    \/ \E w \in WrapperPtrs, v \in Bodies : ExpectBodyNotEquals(w, v)
    \/ \E w \in WrapperPtrs, passes \in BOOLEAN : ExpectBodyPasses(w, passes)
    \/ \E w \in WrapperPtrs, k \in Keys, n \in Values : ExpectHeaderContains(w, k, n)
    \/ \E w \in WrapperPtrs, k \in Keys, n \in Values : ExpectHeaderEquals(w, k, n)
    \/ \E w \in WrapperPtrs, k \in Keys, n \in Values : ExpectHeaderNotContains(w, k, n)
    \/ \E w \in WrapperPtrs, k \in Keys, n \in Values : ExpectHeaderNotEquals(w, k, n)
    \/ \E w \in WrapperPtrs, k \in Keys : ExpectHeaderNotPresent(w, k)
    \/ \E w \in WrapperPtrs, k \in Keys : ExpectHeaderPresent(w, k)
    \/ \E w \in WrapperPtrs, passes \in BOOLEAN : ExpectPasses(w, passes)
    \/ \E w \in WrapperPtrs, code \in StatusCodes : ExpectStatus(w, code)
    \/ \E w \in WrapperPtrs : ParseBody(w)
    \/ \E w \in WrapperPtrs, op \in AssertionOps : NopMethod(w, op)
    \/ \E w \in WrapperPtrs : Body(w)
    \/ \E w \in WrapperPtrs : NopBody(w)

Spec == Init /\ [][Next]_vars

-----------------------------------------------------------------------------
(* One caller that only configures and clones builders *)

InitCfg ==
    /\ clients = <<>>
    /\ httpClients = <<>>
    /\ headerMaps = <<>>
    /\ origin = <<>>
    /\ wrappers = <<>>
    /\ nerrs = 0
    /\ budget = MaxConfigCfg
    /\ last = Call("", 0, <<"", 0>>, FALSE, 0, 0, 0, 0, FALSE)
    /\ pc = [g \in Goroutines |-> "idle"]
    /\ loc = [g \in Goroutines |-> NoLocals]

NextCfg ==
    \/ \E url \in BaseURLs : NewClient(url)
    \/ \E c \in ClientPtrs : NoBasicAuth(c)
    \/ \E c \in ClientPtrs, u \in Users, p \in Passes : UseBasicAuth(c, u, p)
    \/ \E c \in ClientPtrs, use \in BOOLEAN, jarOK \in BOOLEAN : UseCookies(c, use, jarOK)
    \/ \E c \in ClientPtrs, k \in Keys, v \in Values : WithHeader(c, k, v)
    \/ \E c \in ClientPtrs, t \in Timeouts : WithTimeout(c, t)
    \/ \E c \in ClientPtrs : Clone(c)

SpecCfg == InitCfg /\ [][NextCfg]_vars

-----------------------------------------------------------------------------
(* One caller that issues requests through one builder and inspects the     *)
(* responses; the builder is not configured.                                *)

\* base URLs and paths with and without a slash at the joint
ReqBaseURLs == {<<"h">>, <<"h", "/">>}
ReqPaths == {<<"p">>, <<"/", "p">>, <<"/", "/", "p">>, <<"%">>}

\* the values header assertions are called with, the empty string included
ReqNeedles == Values \cup {<<>>}

InitReq ==
    /\ clients = <<>>
    /\ httpClients = <<>>
    /\ headerMaps = <<>>
    /\ origin = <<>>
    /\ wrappers = <<>>
    /\ nerrs = 0
    /\ budget = 0
    /\ last = Call("", 0, <<"", 0>>, FALSE, 0, 0, 0, 0, FALSE)
    /\ pc = [g \in Goroutines |-> "idle"]
    /\ loc = [g \in Goroutines |-> NoLocals]

NextReq ==
    \/ \E url \in ReqBaseURLs : NewClient(url)
    \/ \E c \in ClientPtrs, m \in Methods, p \in ReqPaths : doReqNoBody(c, m, p)
    \/ \E c \in ClientPtrs, m \in BodyMethods, p \in ReqPaths, b \in JSONBodies :
          doReqJSON(c, m, p, b)
    \/ \E c \in ClientPtrs, m \in BodyMethods, p \in ReqPaths : doReqString(c, m, p)
    \/ \E c \in ClientPtrs, m \in BodyMethods, p \in ReqPaths : doReqBytes(c, m, p)
    \/ \E c \in ClientPtrs, p \in ReqPaths : doReqForm(c, "POST", p)
    \/ \E w \in WrapperPtrs, n \in Bodies : ExpectBodyContains(w, n)
    \/ \E w \in WrapperPtrs, v \in Bodies : ExpectBodyEquals(w, v)
    \/ \E w \in WrapperPtrs, n \in Bodies : ExpectBodyNotContains(w, n)
    \/ \E w \in WrapperPtrs, v \in Bodies : ExpectBodyNotEquals(w, v)
    \/ \E w \in WrapperPtrs, passes \in BOOLEAN : ExpectBodyPasses(w, passes)
    \/ \E w \in WrapperPtrs, k \in Keys, n \in ReqNeedles : ExpectHeaderContains(w, k, n)
    \/ \E w \in WrapperPtrs, k \in Keys, n \in ReqNeedles : ExpectHeaderEquals(w, k, n)
    \/ \E w \in WrapperPtrs, k \in Keys, n \in ReqNeedles : ExpectHeaderNotContains(w, k, n)
    \/ \E w \in WrapperPtrs, k \in Keys, n \in ReqNeedles : ExpectHeaderNotEquals(w, k, n)
    \/ \E w \in WrapperPtrs, k \in Keys : ExpectHeaderNotPresent(w, k)
    \/ \E w \in WrapperPtrs, k \in Keys : ExpectHeaderPresent(w, k)
    \/ \E w \in WrapperPtrs, passes \in BOOLEAN : ExpectPasses(w, passes)
    \/ \E w \in WrapperPtrs, code \in StatusCodes : ExpectStatus(w, code)
    \/ \E w \in WrapperPtrs : ParseBody(w)
    \/ \E w \in WrapperPtrs, op \in AssertionOps : NopMethod(w, op)
    \/ \E w \in WrapperPtrs : Body(w)
    \/ \E w \in WrapperPtrs : NopBody(w)

SpecReq == InitReq /\ [][NextReq]_vars

-----------------------------------------------------------------------------
(* One caller that sets headers and credentials of one builder and issues   *)
(* requests with it.                                                        *)

NextBuild ==
    \/ \E url \in BaseURLs : NewClient(url)
    \/ \E c \in ClientPtrs : NoBasicAuth(c)
    \/ \E c \in ClientPtrs, u \in Users, p \in Passes : UseBasicAuth(c, u, p)
    \/ \E c \in ClientPtrs, k \in Keys, v \in Values : WithHeader(c, k, v)
    \/ \E c \in ClientPtrs, m \in Methods, p \in Paths : doReqNoBody(c, m, p)
    \/ \E c \in ClientPtrs, p \in Paths : doReqForm(c, "POST", p)

SpecBuild == InitCfg /\ [][NextBuild]_vars

-----------------------------------------------------------------------------
(* Goroutines sharing one builder.  errGetter and errSetter each take the   *)
(* errLock for one read or one write of the err field; a step of a          *)
(* goroutine is one such acquisition together with the computation on       *)
(* locals that follows it up to the next acquisition.                       *)

\* the request of the inspector the goroutines share at the start
FirstReq == [NewRequest("GET", <<"h", "/", "p">>) EXCEPT !.Header = EmptyHeader]

\* after  c := NewClient("h"); r := c.Get("/p")  was answered with a 200:
\* every goroutine holds c and r
InitConc ==
    /\ clients = <<NewCustomClientStruct(1, <<"h">>, 1)>>
    /\ httpClients = <<[Jar |-> Nil]>>
    /\ headerMaps = <<EmptyHeader.m>>
    /\ origin = <<0>>
    /\ wrappers = <<ResponseWrapper(1,
                        [Response(200, ResponseHeader,
                                  <<"1">>, FALSE) EXCEPT !.drained = TRUE],
                        <<"1">>, TRUE, FirstReq)>>
    /\ nerrs = 0
    /\ budget = 0
    /\ last = Call("", 0, <<"", 0>>, FALSE, 0, 0, 0, 0, FALSE)
    /\ pc = [g \in Goroutines |-> "idle"]
    /\ loc = [g \in Goroutines |-> [NoLocals EXCEPT !.r = wrappers[1]]]

ConcFrame == UNCHANGED <<httpClients, headerMaps, origin, wrappers, budget, last>>

\* goroutine g moves to label l with locals v
GoTo(g, l, v) ==
    /\ pc' = [pc EXCEPT ![g] = l]
    /\ loc' = [loc EXCEPT ![g] = v]

\* the call returns inspector r to goroutine g
GoReturn(g, r) == GoTo(g, "idle", [NoLocals EXCEPT !.r = r])

\* doReqNoBody: if c.errGetter() != nil { return nop }; return c.doReq(...)
GoDoReqNoBody(g, c, method, path) ==
    /\ pc[g] = "idle"
    /\ IF errGetter(clients, c) # NilError
       THEN GoReturn(g, NopResponseWrapper)
       ELSE GoTo(g, "doReq", [loc[g] EXCEPT !.op = "doReqNoBody", !.c = c,
                                           !.method = method, !.path = path])
    /\ UNCHANGED <<clients, nerrs>>
    /\ ConcFrame

\* doReqJSON up to the result of json.Marshal
GoDoReqJSON(g, c, method, path, body) ==
    /\ pc[g] = "idle"
    /\ IF errGetter(clients, c) # NilError
       THEN GoReturn(g, NopResponseWrapper) /\ nerrs' = nerrs
       ELSE IF MarshalFails(body)
       THEN /\ GoTo(g, "marshalSet",
                    [loc[g] EXCEPT !.op = "doReqJSON", !.c = c,
                        !.e = Wrap(NewError("json.Marshal"), "marshalling JSON body")])
            /\ nerrs' = nerrs + 1
       ELSE /\ GoTo(g, "doReq", [loc[g] EXCEPT !.op = "doReqJSON", !.c = c,
                                            !.method = method, !.path = path])
            /\ nerrs' = nerrs
    /\ UNCHANGED clients
    /\ ConcFrame

\* doReqJSON: c.errSetter(errors.Wrap(err, "marshalling JSON body")); return nop
GoMarshalSet(g) ==
    /\ pc[g] = "marshalSet"
    /\ clients' = errSetter(clients, loc[g].c, loc[g].e)
    /\ GoReturn(g, NopResponseWrapper)
    /\ UNCHANGED nerrs
    /\ ConcFrame

\* doReq: the check of the error, then buildReq up to the result of
\* http.NewRequest
GoDoReq(g) ==
    /\ pc[g] = "doReq"
    /\ LET c == loc[g].c
       IN  IF errGetter(clients, c) # NilError
           THEN GoReturn(g, NopResponseWrapper) /\ nerrs' = nerrs
           ELSE IF buildReq(c, loc[g].method, loc[g].path).isNil
           THEN /\ GoTo(g, "buildReqSet",
                        [loc[g] EXCEPT
                            !.e = Wrap(NewError("http.NewRequest"), "creating request")])
                /\ nerrs' = nerrs + 1
           ELSE /\ GoTo(g, "do", [loc[g] EXCEPT
                                     !.req = buildReq(c, loc[g].method, loc[g].path)])
                /\ nerrs' = nerrs
    /\ UNCHANGED clients
    /\ ConcFrame

\* buildReq: c.errSetter(errors.Wrap(err, "creating request")); return nil
GoBuildReqSet(g) ==
    /\ pc[g] = "buildReqSet"
    /\ clients' = errSetter(clients, loc[g].c, loc[g].e)
    /\ GoTo(g, "do", [loc[g] EXCEPT !.e = NilError, !.req = NilReq])
    /\ UNCHANGED nerrs
    /\ ConcFrame

\* do: the check of the error, then c.httpClient.Do(req), which returns out.
\* Do(nil) dereferences the nil request.
GoDo(g, out) ==
    /\ pc[g] = "do"
    /\ IF errGetter(clients, loc[g].c) # NilError
       THEN /\ GoTo(g, "new", [loc[g] EXCEPT !.resp = NilResp, !.wrapf = FALSE])
            /\ nerrs' = nerrs
       ELSE IF loc[g].req.isNil
       THEN GoTo(g, "panicked", loc[g]) /\ nerrs' = nerrs
       ELSE IF out.isNil
       THEN /\ GoTo(g, "doSet", [loc[g] EXCEPT
                                    !.e = Wrap(URLError(NewError("transport"), loc[g].req),
                                              "doing request")])
            /\ nerrs' = nerrs + 1
       ELSE /\ GoTo(g, "new", [loc[g] EXCEPT !.resp = out, !.wrapf = TRUE])
            /\ nerrs' = nerrs
    /\ UNCHANGED clients
    /\ ConcFrame

\* (variant: do does not record the failure of the transport)
GoDoSetSkipped(g) ==
    /\ pc[g] = "doSet"
    /\ GoTo(g, "new", [loc[g] EXCEPT !.e = NilError, !.resp = NilResp, !.wrapf = TRUE])
    /\ UNCHANGED <<clients, nerrs>>
    /\ ConcFrame

\* do: c.errSetter(errors.Wrap(err, "doing request"))
GoDoSet(g) ==
    /\ pc[g] = "doSet"
    /\ clients' = errSetter(clients, loc[g].c, loc[g].e)
    /\ GoTo(g, "new", [loc[g] EXCEPT !.e = NilError, !.resp = NilResp, !.wrapf = TRUE])
    /\ UNCHANGED nerrs
    /\ ConcFrame

\* newResponseWrapper: errChecker(), then ioutil.ReadAll(r.resp.Body)
GoNew(g) ==
    /\ pc[g] = "new"
    /\ LET c == loc[g].c
           n == newResponseWrapper(c, loc[g].resp, errGetter(clients, c),
                                   loc[g].wrapf, loc[g].req)
       IN  IF n.panic
           THEN GoTo(g, "panicked", loc[g]) /\ nerrs' = nerrs
           ELSE IF n.set # NilError
           THEN /\ GoTo(g, "newSet", [loc[g] EXCEPT !.e = n.set, !.r = n.r])
                /\ nerrs' = nerrs + 1
           ELSE GoReturn(g, n.r) /\ nerrs' = nerrs
    /\ UNCHANGED clients
    /\ ConcFrame

\* newResponseWrapper: r.setError(errors.Wrap(err, "reading response body"))
GoNewSet(g) ==
    /\ pc[g] = "newSet"
    /\ clients' = errSetter(clients, loc[g].c, loc[g].e)
    /\ GoReturn(g, loc[g].r)
    /\ UNCHANGED nerrs
    /\ ConcFrame

\* an assertion method of the inspector g holds, up to its call of setError
GoExpect(g, op, derefs, failed, cause) ==
    LET r == loc[g].r
    IN  /\ pc[g] = "idle"
        /\ r.kind = "real"
        /\ IF errGetter(clients, r.client) # NilError
           THEN GoReturn(g, r) /\ nerrs' = nerrs
           ELSE IF derefs /\ r.resp.isNil
           THEN GoTo(g, "panicked", loc[g]) /\ nerrs' = nerrs
           ELSE IF failed
           THEN /\ GoTo(g, "setError",
                        [loc[g] EXCEPT !.op = op, !.c = r.client,
                                       !.e = SetErrorArg(r, NewError(cause))])
                /\ nerrs' = nerrs + 1
           ELSE GoReturn(g, r) /\ nerrs' = nerrs
        /\ UNCHANGED clients
        /\ ConcFrame

GoExpectBodyContains(g, needle) ==
    GoExpect(g, "ExpectBodyContains", FALSE,
             ~Contains(loc[g].r.body, needle), "expected body to contain")

GoExpectStatus(g, code) ==
    GoExpect(g, "ExpectStatus", TRUE,
             loc[g].r.resp.StatusCode # code,
             "expected status code " \o ToString(code) \o " but got "
                 \o ToString(loc[g].r.resp.StatusCode))

\* the assertion method: r.setError(fmt.Errorf(...)); return r
GoSetError(g) ==
    /\ pc[g] = "setError"
    /\ clients' = errSetter(clients, loc[g].c, loc[g].e)
    /\ GoReturn(g, loc[g].r)
    /\ UNCHANGED nerrs
    /\ ConcFrame

NextConc ==
    \/ \E g \in Goroutines, m \in Methods, p \in Paths : GoDoReqNoBody(g, 1, m, p)
    \/ \E g \in Goroutines, m \in BodyMethods, p \in Paths, b \in JSONBodies :
          GoDoReqJSON(g, 1, m, p, b)
    \/ \E g \in Goroutines : GoMarshalSet(g)
    \/ \E g \in Goroutines : GoDoReq(g)
    \/ \E g \in Goroutines : GoBuildReqSet(g)
    \/ \E g \in Goroutines, out \in TransportOutcomes : GoDo(g, out)
    \/ \E g \in Goroutines : GoDoSet(g)
    \/ \E g \in Goroutines : GoNew(g)
    \/ \E g \in Goroutines : GoNewSet(g)
    \/ \E g \in Goroutines, n \in Bodies : GoExpectBodyContains(g, n)
    \/ \E g \in Goroutines, code \in StatusCodes : GoExpectStatus(g, code)
    \/ \E g \in Goroutines : GoSetError(g)

SpecConc == InitConc /\ [][NextConc]_vars

-----------------------------------------------------------------------------
(* Goroutines that also configure and clone the builders they share.  The   *)
(* configuration methods and Clone take the errLock once, for their check.  *)

InitConcAll ==
    /\ clients = <<NewCustomClientStruct(1, <<"h">>, 1)>>
    /\ httpClients = <<[Jar |-> Nil]>>
    /\ headerMaps = <<EmptyHeader.m>>
    /\ origin = <<0>>
    /\ wrappers = <<>>
    /\ nerrs = 0
    /\ budget = MaxConfig
    /\ last = Call("", 0, <<"", 0>>, FALSE, 0, 0, 0, 0, FALSE)
    /\ pc = [g \in Goroutines |-> "idle"]
    /\ loc = [g \in Goroutines |-> NoLocals]

\* WithTimeout: the check, then c.timeout = timeout
GoWithTimeout(g, c, timeout) ==
    /\ pc[g] = "idle"
    /\ IF errGetter(clients, c) # NilError
       THEN UNCHANGED <<clients, budget>>
       ELSE /\ Spend
            /\ clients' = [clients EXCEPT ![c].timeout = timeout]
    /\ UNCHANGED <<httpClients, headerMaps, origin, wrappers, nerrs, last, pc, loc>>

\* a UseCookies that hands the wrapped result of cookiejar.New to errSetter
\* whether or not it is nil
GoUseCookiesWrapsAlways(g, c, use, jarOK) ==
    /\ pc[g] = "idle"
    /\ IF errGetter(clients, c) # NilError
       THEN UNCHANGED <<httpClients, nerrs, budget, pc, loc>>
       ELSE IF ~use
       THEN /\ Spend
            /\ httpClients' = [httpClients EXCEPT ![clients[c].httpClient].Jar = Nil]
            /\ UNCHANGED <<nerrs, pc, loc>>
       ELSE IF ~jarOK
       THEN /\ GoTo(g, "cookieSet",
                    [loc[g] EXCEPT !.op = "UseCookies", !.c = c,
                        !.e = Wrap(NewError("cookiejar.New"), "creating cookie jar")])
            /\ nerrs' = nerrs + 1
            /\ UNCHANGED <<httpClients, budget>>
       ELSE /\ Spend
            /\ httpClients' = [httpClients EXCEPT ![clients[c].httpClient].Jar = "jar"]
            /\ GoTo(g, "cookieSet",
                    [loc[g] EXCEPT !.op = "UseCookies", !.c = c, !.e = NilError])
            /\ UNCHANGED nerrs
    /\ UNCHANGED <<clients, headerMaps, origin, wrappers, last>>

\* UseCookies up to the result of cookiejar.New
GoUseCookies(g, c, use, jarOK) ==
    /\ pc[g] = "idle"
    /\ IF errGetter(clients, c) # NilError
       THEN UNCHANGED <<httpClients, nerrs, budget, pc, loc>>
       ELSE IF ~use
       THEN /\ Spend
            /\ httpClients' = [httpClients EXCEPT ![clients[c].httpClient].Jar = Nil]
            /\ UNCHANGED <<nerrs, pc, loc>>
       ELSE IF ~jarOK
       THEN /\ GoTo(g, "cookieSet",
                    [loc[g] EXCEPT !.op = "UseCookies", !.c = c,
                        !.e = Wrap(NewError("cookiejar.New"), "creating cookie jar")])
            /\ nerrs' = nerrs + 1
            /\ UNCHANGED <<httpClients, budget>>
       ELSE /\ Spend
            /\ httpClients' = [httpClients EXCEPT ![clients[c].httpClient].Jar = "jar"]
            /\ UNCHANGED <<nerrs, pc, loc>>
    /\ UNCHANGED <<clients, headerMaps, origin, wrappers, last>>

\* UseCookies: c.errSetter(errors.Wrap(err, "creating cookie jar")); return c
GoCookieSet(g) ==
    /\ pc[g] = "cookieSet"
    /\ clients' = errSetter(clients, loc[g].c, loc[g].e)
    /\ GoTo(g, "idle", [NoLocals EXCEPT !.r = loc[g].r])
    /\ UNCHANGED <<httpClients, headerMaps, origin, wrappers, nerrs, budget, last>>

\* Clone: the check, then cloned := *c, which reads c.err without the lock
\* while another goroutine may write it: the copy of the field holds the
\* value before or after such a write (err is what it reads).
GoClone(g, c, err) ==
    /\ pc[g] = "idle"
    /\ IF errGetter(clients, c) # NilError
       THEN UNCHANGED <<clients, headerMaps, origin>>
       ELSE /\ Len(clients) < MaxClients
            /\ err \in {clients[c].err}
                      \cup {loc[h].e : h \in {x \in Goroutines :
                                pc[x] \in {"doSet", "buildReqSet", "setError",
                                           "cookieSet", "newSet"}}}
            /\ clients' = Append(clients, [ClonedStruct(c) EXCEPT !.err = err])
            /\ headerMaps' = Append(headerMaps, ClonedHeaders(c))
            /\ origin' = Append(origin, c)
    /\ UNCHANGED <<httpClients, wrappers, nerrs, budget, last, pc, loc>>

\* the errors a copy of the struct may read
CloneReads ==
    {NilError} \cup {loc[h].e : h \in Goroutines}

NextConcAll ==
    \/ \E g \in Goroutines, c \in ClientPtrs, p \in Paths : GoDoReqNoBody(g, c, "GET", p)
    \/ \E g \in Goroutines : GoDoReq(g)
    \/ \E g \in Goroutines : GoBuildReqSet(g)
    \/ \E g \in Goroutines, out \in TransportOutcomes : GoDo(g, out)
    \/ \E g \in Goroutines : GoDoSet(g)
    \/ \E g \in Goroutines : GoNew(g)
    \/ \E g \in Goroutines : GoNewSet(g)
    \/ \E g \in Goroutines, n \in Bodies : GoExpectBodyContains(g, n)
    \/ \E g \in Goroutines : GoSetError(g)
    \/ \E g \in Goroutines, c \in ClientPtrs, t \in Timeouts : GoWithTimeout(g, c, t)
    \/ \E g \in Goroutines, c \in ClientPtrs, use \in BOOLEAN, jarOK \in BOOLEAN :
          GoUseCookies(g, c, use, jarOK)
    \/ \E g \in Goroutines : GoCookieSet(g)
    \/ \E g \in Goroutines, c \in ClientPtrs, err \in CloneReads : GoClone(g, c, err)

SpecConcAll == InitConcAll /\ [][NextConcAll]_vars

-----------------------------------------------------------------------------
(* Notions the properties use *)

\* the builder through which the most recent call was made: the receiver of
\* a builder method, the builder bound to the inspector of an assertion
Via ==
    IF last.op \in ConfigOps \cup ActionOps \cup {"Clone"} THEN last.self
    ELSE IF /\ last.op \in AssertionOps
            /\ last.ret[1] # "nop"
            /\ last.self \in WrapperPtrs
         THEN wrappers[last.self].client
         ELSE 0

\* the builder NewClient returned from which c descends by Clone calls
RECURSIVE RootOf(_)
RootOf(c) == IF origin[c] = 0 THEN c ELSE RootOf(origin[c])

\* whether a request c issues now is sent with a cookie store
UsesCookies(c) == httpClients[clients[c].httpClient].Jar # Nil

\* the most recent call was an assertion on a responseWrapper
RealAssertion ==
    /\ last.op \in AssertionOps
    /\ last.ret[1] # "nop"
    /\ last.self \in WrapperPtrs

-----------------------------------------------------------------------------
(* C1 -- first failure wins: with one caller, once Error() of a builder     *)
(* returns a non-nil error E, it returns exactly E after every later call   *)
(* of a configuration, Clone, action or assertion method.                   *)

C1_FirstFailureWins ==
    [][\A c \in ClientPtrs :
          Error(c) # NilError => Error(c)' = Error(c)]_vars

\* a call was made while an error was pending
C1_Witness ==
    /\ last.pending
    /\ Via \in ClientPtrs
    /\ Error(Via) # NilError
    /\ last.op \in AssertionOps \cup ActionOps

(* C2 -- on a builder whose Error() is non-nil, NoBasicAuth, UseBasicAuth,  *)
(* UseCookies, WithHeader, WithTimeout and Clone return the same builder    *)
(* and change nothing: auth, headers, timeout, cookie store, error.         *)

C2_ConfigNoOpOnError ==
    [][(/\ last'.op \in ConfigOps \cup {"Clone"}
        /\ Error(last'.self) # NilError)
       => /\ last'.ret = <<"client", last'.self>>
          /\ clients' = clients
          /\ headerMaps' = headerMaps
          /\ httpClients' = httpClients]_vars

C2_Witness ==
    /\ last.op \in ConfigOps \cup {"Clone"}
    /\ last.pending
    /\ Error(last.self) # NilError

(* C3 -- when Error() is already non-nil, every action method returns a     *)
(* Null Inspector, makes no transport call, builds no request and leaves    *)
(* the error unchanged.                                                     *)

C3_ActionNoOpOnError ==
    [][(/\ last'.op \in ActionOps
        /\ Error(last'.self) # NilError)
       => /\ last'.ret[1] = "nop"
          /\ wrappers'[last'.ret[2]] = NopResponseWrapper
          /\ last'.transport = 0
          /\ last'.built = 0
          /\ last'.sets = 0
          /\ clients' = clients]_vars

C3_Witness ==
    /\ last.op \in ActionOps
    /\ last.pending
    /\ last.ret[1] = "nop"
    /\ Error(last.self) # NilError

(* C4 -- an assertion method of a Response Inspector called while the       *)
(* shared error accessor reports an error does not call the setter, does    *)
(* not call the caller's function, does not write the ParseBody             *)
(* destination, returns the same inspector and leaves the error as it was.  *)

C4_AssertionNoOpOnError ==
    [][(/\ last'.op \in AssertionOps
        /\ last'.self \in WrapperPtrs
        /\ wrappers[last'.self].kind = "real"
        /\ errGetter(clients, wrappers[last'.self].client) # NilError)
       => /\ last'.sets = 0
          /\ last'.pred = 0
          /\ last'.dest = 0
          /\ last'.ret = <<"real", last'.self>>
          /\ wrappers' = wrappers
          /\ clients' = clients]_vars

C4_Witness ==
    /\ RealAssertion
    /\ last.pending
    /\ last.op \in {"ExpectPasses", "ExpectBodyPasses", "ParseBody"}
    /\ Error(Via) # NilError

(* C5 -- as claimed: a clone shares no mutable state with its original, so  *)
(* a call made through one of them never changes Error() of the other.      *)

C5_CloneSharesNoState ==
    [][\A c \in ClientPtrs :
          (/\ Via' \in ClientPtrs
           /\ c # Via'
           /\ (origin[c] = Via' \/ origin[Via'] = c))
          => Error(c)' = Error(c)]_vars

(* C5, amended -- a clone has a header map of its own but shares the error  *)
(* cell of its original: after every call made through a builder, Error()   *)
(* of every builder of the same Clone family returns what Error() of that   *)
(* builder returns, and no two builders point to the same header map.       *)

C5_CloneSharesErrorCell ==
    [][\A c \in ClientPtrs :
          (/\ Via' \in ClientPtrs
           /\ RootOf(c) = RootOf(Via'))
          => /\ Error(c)' = errGetter(clients', Via')
             /\ (c # Via' /\ clients'[c].headers # 0
                    => clients'[c].headers # clients'[Via'].headers)]_vars

\* an error recorded through the original is the clone's error too
C5_Witness ==
    /\ last.sets > 0
    /\ Via \in ClientPtrs
    /\ \E c \in ClientPtrs :
          /\ origin[c] = Via
          /\ Error(c) # NilError
          /\ Error(c) = Error(Via)

(* C6 -- a failure recorded in a chain started from a clone (a failed       *)
(* request on the clone, a failed assertion on one of its inspectors) is    *)
(* returned by Error() of the root builder the clone descends from.         *)

C6_RootSeesCloneFailures ==
    (last.sets > 0 /\ Via \in ClientPtrs)
    => /\ Error(RootOf(Via)) # NilError
       /\ clients[RootOf(Via)].err # NilError
       /\ clients[RootOf(Via)].err.id = nerrs

C6_Witness ==
    /\ last.sets > 0
    /\ Via \in ClientPtrs
    /\ origin[Via] # 0
    /\ Error(RootOf(Via)) # NilError

(* C7 -- the cookie policy of a clone is independent of the original and of *)
(* sibling clones: UseCookies on one builder does not change whether the    *)
(* requests of another builder use a cookie store.                          *)

C7_CookiePolicyIndependent ==
    [][last'.op = "UseCookies"
       => \A c \in ClientPtrs \ {last'.self} :
              UsesCookies(c)' = UsesCookies(c)]_vars

(* C8 -- Clone of an error-free builder returns a new builder with equal    *)
(* header values (same keys, same values in the same order), basic-auth     *)
(* settings, timeout and base URL; afterwards WithHeader on one of the two  *)
(* leaves the headers of the other unchanged.                               *)

C8_CloneCopiesHeaders ==
    [][/\ (last'.op = "Clone" /\ Error(last'.self) = NilError)
          => LET n == last'.ret[2]
                 c == last'.self
             IN  /\ n \notin ClientPtrs
                 /\ HeadersOf(clients', headerMaps', n).m
                        = HeadersOf(clients, headerMaps, c).m
                 /\ clients'[n].useBasicAuth = clients[c].useBasicAuth
                 /\ clients'[n].basicAuthUser = clients[c].basicAuthUser
                 /\ clients'[n].basicAuthPass = clients[c].basicAuthPass
                 /\ clients'[n].timeout = clients[c].timeout
                 /\ clients'[n].baseURL = clients[c].baseURL
       /\ last'.op = "WithHeader"
          => \A d \in ClientPtrs \ {last'.self} :
                 HeadersOf(clients', headerMaps', d)
                     = HeadersOf(clients, headerMaps, d)]_vars

\* WithHeader on a clone made of a builder with two values under one key
C8_Witness ==
    /\ last.op = "WithHeader"
    /\ ~last.pending
    /\ origin[last.self] # 0
    /\ Len(HeadersOf(clients, headerMaps, origin[last.self]).m["H1"]) = 2
    /\ HeadersOf(clients, headerMaps, last.self).m["H1"]
           = Append(HeadersOf(clients, headerMaps, origin[last.self]).m["H1"], <<"v">>)

(* C10 -- every failure of an action method on an error-free builder (body  *)
(* serialization, request construction, transport), PostForm included,      *)
(* returns normally with Error() non-nil, and the inspector it returns      *)
(* reports that error to every assertion.                                   *)

C10_ActionFailureReturnsNormally ==
    (last.op \in ActionOps /\ ~last.pending /\ last.sets > 0)
    => /\ ~last.panic
       /\ Error(last.self) # NilError
       /\ last.ret[1] = "real"
             => errGetter(clients, wrappers[last.ret[2]].client) # NilError

-----------------------------------------------------------------------------
(* C9 -- first writer wins under concurrency: when goroutines run failing   *)
(* operations against the error cell of one builder, a write of the cell    *)
(* never replaces an error that is already recorded there.                  *)
C9_FirstWriterWins ==
    [][\A c \in ClientPtrs :
          clients[c].err # NilError => clients'[c].err = clients[c].err]_vars

-----------------------------------------------------------------------------
\* the most recent call was an action whose transport call failed
TransportFailed ==
    /\ last.op \in ActionOps
    /\ last.transport = 1
    /\ last.ret[1] = "real"
    /\ wrappers[last.ret[2]].resp.isNil

-----------------------------------------------------------------------------
\* the transport calls an action on builder c has to make: none when an
\* error is pending, serialization fails or the request cannot be built
Attempts(c, path, serializationFails) ==
    IF \/ Error(c) # NilError
       \/ serializationFails
       \/ URLParseFails(clients[c].baseURL \o <<"/">> \o TrimPrefix(path, "/"))
    THEN 0 ELSE 1

(* C12 -- every call of an action method makes exactly one transport call   *)
(* when the builder has no error and serialization and request construction *)
(* succeed, whether the transport succeeds or fails, and none otherwise;    *)
(* a call is never retried.                                                 *)
C12_OneAttemptPerCall ==
    [][last'.op \in ActionOps =>
         LET c == last'.self
             op == last'.op
         IN  /\ \A m \in Methods, p \in ReqPaths :
                  op = "doReqNoBody" /\ doReqNoBody(c, m, p)
                      => last'.transport = Attempts(c, p, FALSE)
             /\ \A m \in BodyMethods, p \in ReqPaths, b \in JSONBodies :
                  op = "doReqJSON" /\ doReqJSON(c, m, p, b)
                      => last'.transport = Attempts(c, p, MarshalFails(b))
             /\ \A m \in BodyMethods, p \in ReqPaths :
                  /\ op = "doReqString" /\ doReqString(c, m, p)
                      => last'.transport = Attempts(c, p, FALSE)
                  /\ op = "doReqBytes" /\ doReqBytes(c, m, p)
                      => last'.transport = Attempts(c, p, FALSE)
                  /\ op = "doReqForm" /\ doReqForm(c, m, p)
                      => last'.transport = Attempts(c, p, FALSE)
             /\ last'.transport \in {0, 1}]_vars

C12_Witness ==
    /\ last.op = "doReqJSON"
    /\ last.transport = 1
    /\ TransportFailed
    /\ last.sets = 1

-----------------------------------------------------------------------------
(* C13 -- the body stream of every response an inspector was constructed    *)
(* around has been read to its end and closed when construction returns.    *)
C13_BodyDrainedAndClosed ==
    \A w \in WrapperPtrs :
        (wrappers[w].kind = "real" /\ ~wrappers[w].resp.isNil)
            => wrappers[w].resp.drained /\ wrappers[w].resp.closed

-----------------------------------------------------------------------------
(* C14 -- the body stream is read only by newResponseWrapper: no call of    *)
(* Body or of an assertion method changes an inspector, its response stream *)
(* or its materialized body; the body of an inspector whose stream was read *)
(* is the full content of the stream, and Body returns it on every call,    *)
(* also after an error was recorded.                                        *)
C14_SingleBodyRead ==
    [][/\ last'.op \in AssertionOps \cup {"Body"} => wrappers' = wrappers
       /\ \A w \in 1..Len(wrappers') :
             wrappers'[w].resp.drained => wrappers'[w].body = wrappers'[w].resp.Body
       /\ (last'.op = "Body" /\ wrappers[last'.self].kind = "real")
             => last'.str = wrappers[last'.self].body]_vars

C14_Witness ==
    /\ last.op = "Body"
    /\ last.str = <<"1">>
    /\ wrappers[last.self].resp.drained
    /\ Error(wrappers[last.self].client) # NilError

-----------------------------------------------------------------------------
(* C15 -- when the error accessor reports an error as newResponseWrapper    *)
(* is called, construction returns an inspector that keeps the response it  *)
(* was given, unread, and has the empty body; the setter is not called.     *)
C15_PendingErrorSkipsRead ==
    [][\A g \in Goroutines :
          (/\ pc[g] = "new"
           /\ pc'[g] # "new"
           /\ errGetter(clients, loc[g].c) # NilError)
          => /\ pc'[g] = "idle"
             /\ loc'[g].r.kind = "real"
             /\ loc'[g].r.resp = loc[g].resp
             /\ loc'[g].r.body = <<>>
             /\ clients' = clients
             /\ nerrs' = nerrs]_vars

C15_Witness ==
    \E g \in Goroutines :
        /\ pc[g] = "idle"
        /\ loc[g].r.kind = "real"
        /\ ~loc[g].r.resp.isNil
        /\ ~loc[g].r.resp.readErr
        /\ ~loc[g].r.resp.drained
        /\ loc[g].r.resp.Body = <<"1">>
        /\ loc[g].r.body = <<>>
        /\ Error(loc[g].r.client) # NilError

-----------------------------------------------------------------------------
\* the most recent call was an action whose response body could not be read
BodyReadFailed ==
    /\ last.op \in ActionOps
    /\ last.transport = 1
    /\ last.ret[1] = "real"
    /\ wrappers[last.ret[2]].resp.readErr

(* C16 -- when no error is pending and reading the response body fails,     *)
(* exactly one error reaches the setter: the read error, wrapped first with *)
(* "reading response body"; the body of the inspector is empty although     *)
(* the stream held content.                                                 *)
C16_ReadFailureReported ==
    BodyReadFailed =>
        LET e == Error(last.self)
            r == wrappers[last.ret[2]]
        IN  /\ last.sets = 1
            /\ e.id = nerrs
            /\ e.cause = "read error"
            /\ Len(e.wraps) >= 1
            /\ e.wraps[1].text = "reading response body"
            /\ r.body = <<>>

C16_Witness ==
    /\ BodyReadFailed
    /\ wrappers[last.ret[2]].resp.Body = <<"1">>
    /\ Error(last.self).cause = "read error"

-----------------------------------------------------------------------------
\* the most recent call was an assertion that found no pending error, on an
\* inspector whose response has no header collection
OnResponseWithoutHeaders ==
    /\ RealAssertion
    /\ ~last.pending
    /\ ~wrappers[last.self].resp.isNil
    /\ wrappers[last.self].resp.Header.isNil

PositiveHeaderOps ==
    {"ExpectHeaderPresent", "ExpectHeaderContains", "ExpectHeaderEquals"}

NegativeHeaderOps ==
    {"ExpectHeaderNotPresent", "ExpectHeaderNotContains", "ExpectHeaderNotEquals"}

(* C17 -- on a response without header collection and with no error         *)
(* pending, ExpectHeaderPresent, ExpectHeaderContains and ExpectHeaderEquals *)
(* record a "no headers" error whatever key and value they are given, and   *)
(* ExpectHeaderNotPresent, ExpectHeaderNotContains and                      *)
(* ExpectHeaderNotEquals record no error.                                   *)
C17_HeaderAsymmetry ==
    OnResponseWithoutHeaders =>
        LET e == Error(wrappers[last.self].client)
        IN  /\ last.op \in PositiveHeaderOps
                  => /\ last.sets = 1
                     /\ e.id = nerrs
                     /\ e.cause = "there are no headers"
            /\ last.op \in NegativeHeaderOps
                  => /\ last.sets = 0
                     /\ e = NilError
            /\ ~last.panic

C17_Witness ==
    /\ OnResponseWithoutHeaders
    /\ last.op = "ExpectHeaderNotContains"
    /\ last.sets = 0
    /\ Error(wrappers[last.self].client) = NilError

-----------------------------------------------------------------------------
(* C18 -- no-op absorption: every method of a null inspector returns the    *)
(* same null inspector, Body returns the empty string, no function of the   *)
(* caller is called, and neither an inspector nor the error of a builder    *)
(* changes, after any sequence of calls.                                    *)
C18_NopAbsorbs ==
    [][(/\ last'.op \in AssertionOps \cup {"Body"}
        /\ wrappers[last'.self].kind = "nop")
       => /\ last'.op \in AssertionOps => last'.ret = <<"nop", last'.self>>
          /\ last'.op = "Body" => last'.str = <<>>
          /\ last'.pred = 0
          /\ last'.sets = 0
          /\ ~last'.panic
          /\ last'.dest = 0
          /\ wrappers' = wrappers
          /\ clients' = clients
          /\ nerrs' = nerrs]_vars

C18_Witness ==
    /\ last.op = "ExpectPasses"
    /\ last.self \in WrapperPtrs
    /\ wrappers[last.self].kind = "nop"
    /\ last.ret = <<"nop", last.self>>
    /\ \E c \in ClientPtrs : Error(c) # NilError

-----------------------------------------------------------------------------
\* base and path joined by one "/": a "/" at the end of the base URL and a
\* "/" at the start of the path do not add to it
TrimSuffix(s, ch) ==
    IF Len(s) > 0 /\ s[Len(s)] = ch THEN SubSeq(s, 1, Len(s) - 1) ELSE s

JoinedOnce(base, path) == TrimSuffix(base, "/") \o <<"/">> \o TrimPrefix(path, "/")

(* C19 -- path joining: the URL of the request an action builds has exactly *)
(* one "/" between the base URL and the path, whether or not the base URL   *)
(* ends with "/" and whether or not the path starts with "/".               *)
C19_SingleSlashJoin ==
    [][(last'.op = "doReqNoBody" /\ last'.built = 1 /\ last'.ret[1] = "real")
       => \A m \in Methods, p \in ReqPaths :
             doReqNoBody(last'.self, m, p)
                 => wrappers'[last'.ret[2]].URL
                        = JoinedOnce(clients[last'.self].baseURL, p)]_vars

-----------------------------------------------------------------------------
BodyOps ==
    {"ExpectBodyContains", "ExpectBodyEquals", "ExpectBodyNotContains",
     "ExpectBodyNotEquals"}

\* s has needle as a substring
IsSubstring(needle, s) ==
    \E i \in 0..Len(s) :
        /\ i + Len(needle) <= Len(s)
        /\ \A j \in 1..Len(needle) : s[i + j] = needle[j]

(* C20 -- body predicates, with no error pending: ExpectBodyContains(n)     *)
(* records an error iff n is not a substring of the body,                   *)
(* ExpectBodyEquals(v) iff the body differs from v, ExpectBodyNotContains(n) *)
(* iff n is a substring, ExpectBodyNotEquals(v) iff the body equals v; each *)
(* call records at most one error and returns the same inspector.           *)
C20_BodyPredicates ==
    [][(/\ last'.op \in BodyOps
        /\ wrappers[last'.self].kind = "real"
        /\ ~last'.pending)
       => LET w == last'.self
              b == wrappers[w].body
              op == last'.op
              recorded == errGetter(clients', wrappers[w].client) # NilError
          IN  /\ \A n \in Bodies :
                   /\ op = "ExpectBodyContains" /\ ExpectBodyContains(w, n)
                         => (recorded <=> ~IsSubstring(n, b))
                   /\ op = "ExpectBodyEquals" /\ ExpectBodyEquals(w, n)
                         => (recorded <=> b # n)
                   /\ op = "ExpectBodyNotContains" /\ ExpectBodyNotContains(w, n)
                         => (recorded <=> IsSubstring(n, b))
                   /\ op = "ExpectBodyNotEquals" /\ ExpectBodyNotEquals(w, n)
                         => (recorded <=> b = n)
              /\ last'.sets = IF recorded THEN 1 ELSE 0
              /\ nerrs' = nerrs + last'.sets
              /\ last'.ret = <<"real", w>>
              /\ wrappers' = wrappers]_vars

C20_Witness ==
    /\ last.op = "ExpectBodyNotEquals"
    /\ RealAssertion
    /\ ~last.pending
    /\ wrappers[last.self].body = <<"1">>
    /\ last.sets = 0
    /\ Error(wrappers[last.self].client) = NilError

-----------------------------------------------------------------------------
\* the message of a status mismatch, for the status codes of the model
StatusMismatch(expected, actual) ==
    IF expected = 200 /\ actual = 500 THEN "expected status code 200 but got 500"
    ELSE IF expected = 500 /\ actual = 200 THEN "expected status code 500 but got 200"
    ELSE ""

(* C21 -- ExpectStatus(code) with no error pending records no error when    *)
(* the status of the response is code, and exactly one error, which names   *)
(* the expected and the actual status, when it is not; it returns the same  *)
(* inspector.                                                               *)
C21_StatusCheck ==
    [][(/\ last'.op = "ExpectStatus"
        /\ wrappers[last'.self].kind = "real"
        /\ ~last'.pending
        /\ ~last'.panic)
       => LET w == last'.self
              actual == wrappers[w].resp.StatusCode
              e == errGetter(clients', wrappers[w].client)
          IN  /\ \A code \in StatusCodes :
                   ExpectStatus(w, code)
                     => IF actual = code
                        THEN last'.sets = 0 /\ e = NilError /\ nerrs' = nerrs
                        ELSE /\ last'.sets = 1
                             /\ nerrs' = nerrs + 1
                             /\ e.id = nerrs'
                             /\ e.cause = StatusMismatch(code, actual)
              /\ last'.ret = <<"real", w>>
              /\ wrappers' = wrappers]_vars

C21_Witness ==
    /\ last.op = "ExpectStatus"
    /\ RealAssertion
    /\ ~last.pending
    /\ last.sets = 1
    /\ wrappers[last.self].resp.StatusCode = 500
    /\ Error(wrappers[last.self].client).cause = "expected status code 200 but got 500"

-----------------------------------------------------------------------------
\* inspector w has a response and the builder it is bound to has no error
Fresh(w) ==
    /\ wrappers[w].kind = "real"
    /\ ~wrappers[w].resp.isNil
    /\ Error(wrappers[w].client) = NilError

\* the step records an error
Records == nerrs' = nerrs + 1 /\ last'.sets = 1

(* C22 -- positive and negative assertions are complements: on an inspector *)
(* with a response (with or without header collection) and no pending      *)
(* error, for every key and value exactly one assertion of each pair        *)
(* Contains / NotContains, Equals / NotEquals, Present / NotPresent would   *)
(* record an error.                                                         *)
C22_Complements ==
    \A w \in WrapperPtrs :
        Fresh(w) =>
            /\ \A n \in Bodies :
                 /\ (ENABLED (ExpectBodyContains(w, n) /\ Records))
                        # (ENABLED (ExpectBodyNotContains(w, n) /\ Records))
                 /\ (ENABLED (ExpectBodyEquals(w, n) /\ Records))
                        # (ENABLED (ExpectBodyNotEquals(w, n) /\ Records))
            /\ \A k \in Keys :
                 /\ (ENABLED (ExpectHeaderPresent(w, k) /\ Records))
                        # (ENABLED (ExpectHeaderNotPresent(w, k) /\ Records))
                 /\ \A n \in Values :
                      /\ (ENABLED (ExpectHeaderContains(w, k, n) /\ Records))
                             # (ENABLED (ExpectHeaderNotContains(w, k, n) /\ Records))
                      /\ (ENABLED (ExpectHeaderEquals(w, k, n) /\ Records))
                             # (ENABLED (ExpectHeaderNotEquals(w, k, n) /\ Records))

C22_Witness ==
    /\ last.op = "ExpectHeaderNotPresent"
    /\ RealAssertion
    /\ ~last.pending
    /\ last.sets = 1
    /\ ~wrappers[last.self].resp.Header.isNil

-----------------------------------------------------------------------------
(* C23 -- multi-valued headers are checked existentially: with a header     *)
(* collection and no error pending, ExpectHeaderEquals(k, v) records no     *)
(* error iff some value under k equals v, ExpectHeaderContains(k, v) iff    *)
(* some value under k has v as a substring, ExpectHeaderPresent(k) iff k    *)
(* has a value; for a key without values all three record an error, also    *)
(* ExpectHeaderContains with the empty string.                              *)
C23_HeaderExistential ==
    [][(/\ last'.op \in PositiveHeaderOps
        /\ wrappers[last'.self].kind = "real"
        /\ ~last'.pending
        /\ ~last'.panic
        /\ ~wrappers[last'.self].resp.Header.isNil)
       => LET w == last'.self
              op == last'.op
              succeeds == last'.sets = 0 /\ clients' = clients
              fails == last'.sets = 1 /\ clients' # clients
              vals(k) == wrappers[w].resp.Header.m[k]
          IN  /\ succeeds # fails
              /\ \A k \in Keys :
                   /\ op = "ExpectHeaderPresent" /\ ExpectHeaderPresent(w, k)
                         => (succeeds <=> Len(vals(k)) > 0)
                   /\ \A v \in ReqNeedles :
                        /\ op = "ExpectHeaderEquals" /\ ExpectHeaderEquals(w, k, v)
                              => (succeeds <=> \E i \in 1..Len(vals(k)) : vals(k)[i] = v)
                        /\ op = "ExpectHeaderContains" /\ ExpectHeaderContains(w, k, v)
                              => (succeeds <=> \E i \in 1..Len(vals(k)) :
                                                   IsSubstring(v, vals(k)[i]))]_vars

C23_Witness ==
    /\ last.op = "ExpectHeaderEquals"
    /\ RealAssertion
    /\ ~last.pending
    /\ last.sets = 0
    /\ Len(wrappers[last.self].resp.Header.m["H1"]) = 2
    /\ Error(wrappers[last.self].client) = NilError

-----------------------------------------------------------------------------
\* the step was a configuration method called on a builder without error
ConfiguredWithoutError ==
    /\ last'.op \in ConfigOps
    /\ ~last'.pending

\* what such a step of builder c leaves alone when it applies its change:
\* every other builder, every field of c that is not the method's own
\* setting, the base URL and the error; the builder returned is c.
ChangesOwnSettingOnly(c) ==
    LET op == last'.op
        hc == clients[c].httpClient
    IN  /\ last'.ret = <<"client", c>>
        /\ Len(clients') = Len(clients)
        /\ nerrs' = nerrs
        /\ \A d \in ClientPtrs : clients'[d].err = clients[d].err
        /\ clients'[c].baseURL = clients[c].baseURL
        /\ op \in {"NoBasicAuth", "UseBasicAuth"}
              => /\ clients' = [clients EXCEPT
                                  ![c].useBasicAuth = clients'[c].useBasicAuth,
                                  ![c].basicAuthUser = clients'[c].basicAuthUser,
                                  ![c].basicAuthPass = clients'[c].basicAuthPass]
                 /\ headerMaps' = headerMaps /\ httpClients' = httpClients
        /\ op = "NoBasicAuth" => ~clients'[c].useBasicAuth
        /\ op = "UseBasicAuth" => clients'[c].useBasicAuth
        /\ op = "WithTimeout"
              => /\ clients' = [clients EXCEPT ![c].timeout = clients'[c].timeout]
                 /\ headerMaps' = headerMaps /\ httpClients' = httpClients
        /\ op = "WithHeader"
              => /\ clients' = [clients EXCEPT ![c].headers = clients'[c].headers]
                 /\ clients'[c].headers # 0
                 /\ headerMaps' = [headerMaps EXCEPT
                                     ![clients'[c].headers] = headerMaps'[clients'[c].headers]]
                 /\ httpClients' = httpClients
        /\ op = "UseCookies"
              => /\ clients' = clients
                 /\ headerMaps' = headerMaps
                 /\ httpClients' = [httpClients EXCEPT ![hc].Jar = httpClients'[hc].Jar]

(* C24 -- as claimed: on a builder without error every configuration       *)
(* method returns the same builder and changes only its own setting; none  *)
(* changes the base URL or the error.                                      *)
C24_ConfigNeverTouchesError ==
    [][ConfiguredWithoutError => ChangesOwnSettingOnly(last'.self)]_vars

(* C24 -- on a builder without error every configuration method returns    *)
(* the same builder and changes only its own setting, base URL and error   *)
(* untouched, with one exception: UseCookies(true) whose cookie store      *)
(* cannot be created records that failure as the error and changes         *)
(* nothing else.                                                           *)
C24_ConfigFrame ==
    [][ConfiguredWithoutError =>
          LET c == last'.self
          IN  IF last'.sets = 0
              THEN ChangesOwnSettingOnly(c)
              ELSE /\ last'.op = "UseCookies"
                   /\ last'.sets = 1
                   /\ last'.ret = <<"client", c>>
                   /\ nerrs' = nerrs + 1
                   /\ errGetter(clients', c).id = nerrs'
                   /\ errGetter(clients', c).cause = "cookiejar.New"
                   /\ clients' = [clients EXCEPT
                                    ![clients[c].errCell].err = errGetter(clients', c)]
                   /\ headerMaps' = headerMaps
                   /\ httpClients' = httpClients]_vars

C24_Witness ==
    /\ last.op = "UseCookies"
    /\ ~last.pending
    /\ last.sets = 1
    /\ Error(last.self).cause = "cookiejar.New"

-----------------------------------------------------------------------------
(* C25 -- WithHeader accumulates and never replaces: a call on a builder    *)
(* without error appends its value to the values stored under the key       *)
(* (header names are stored in canonical form) and leaves the other keys    *)
(* alone; every request built carries every accumulated value of every key  *)
(* in order, and the basic-auth credentials iff basic auth is enabled then. *)
C25_HeadersAccumulate ==
    [][/\ (last'.op = "WithHeader" /\ ~last'.pending)
           => LET c == last'.self
                  old == HeadersOf(clients, headerMaps, c).m
                  new == HeadersOf(clients', headerMaps', c).m
              IN  /\ \A k \in Keys, v \in Values :
                       WithHeader(c, k, v) => new["H1"] = Append(old["H1"], v)
                  /\ Len(new["H1"]) = Len(old["H1"]) + 1
                  /\ new["h1"] = old["h1"]
       /\ (last'.op \in ActionOps /\ last'.built = 1)
           => LET c == last'.self
              IN  \A m \in Methods, p \in Paths :
                     ~buildReq(c, m, p).isNil
                       => /\ \A k \in Keys :
                                buildReq(c, m, p).Header.m[k]
                                    = HeadersOf(clients, headerMaps, c).m[k]
                          /\ buildReq(c, m, p).basicAuth
                                = IF clients[c].useBasicAuth
                                  THEN <<clients[c].basicAuthUser, clients[c].basicAuthPass>>
                                  ELSE <<>>]_vars

C25_Witness ==
    /\ last.op \in ActionOps
    /\ last.built = 1
    /\ clients[last.self].useBasicAuth
    /\ clients[last.self].headers # 0
    /\ Len(headerMaps[clients[last.self].headers]["H1"]) = 3

-----------------------------------------------------------------------------
\* inspector r has no response
Absent(r) == r.kind = "real" /\ r.resp.isNil

(* C26 -- in every state, with goroutines sharing one builder, an inspector *)
(* without response is bound to a builder whose error is set, and no        *)
(* goroutine has dereferenced an absent response or request.                *)
C26_AbsentResponseHasError ==
    /\ \A g \in Goroutines :
          /\ Absent(loc[g].r) => Error(loc[g].r.client) # NilError
          /\ pc[g] # "panicked"
          /\ (pc[g] = "new" /\ loc[g].resp.isNil) => Error(loc[g].c) # NilError
    /\ \A w \in WrapperPtrs :
          Absent(wrappers[w]) => Error(wrappers[w].client) # NilError

C26_Witness ==
    \E g \in Goroutines :
        /\ pc[g] = "idle"
        /\ Absent(loc[g].r)
        /\ Error(loc[g].r.client).cause = "transport"
        /\ \E h \in Goroutines : h # g /\ pc[h] = "setError"

-----------------------------------------------------------------------------
(* C27 -- the error is never cleared, in any interleaving of goroutines     *)
(* that call configuration, action, Clone and assertion methods on a        *)
(* builder, its clones and their inspectors: once Error() of a builder is   *)
(* non-nil it is non-nil in every later state.                              *)
C27_NeverCleared ==
    [][\A c \in ClientPtrs :
          errGetter(clients, c) # NilError => errGetter(clients', c) # NilError]_vars

C27_Witness ==
    /\ Len(clients) = 2
    /\ Error(1) # NilError
    /\ Error(2) = Error(1)
    /\ \E g \in Goroutines : pc[g] = "setError" /\ loc[g].e # Error(1)

====
